---- MODULE Spec2Model ----
(***************************************************************************)
(* Task plan execution (backend_claude): the MultimodalInteractionExecutor *)
(* that runs a TaskPlan action by action, the AccessibilityService entry   *)
(* point execute_task_plan, and the ConversationalPlanManager registry     *)
(* (active_sessions) with process_user_message and handle_clarification.   *)
(*                                                                         *)
(* A run of execute_plan is a coroutine: it is modelled with a program     *)
(* counter that stops at the awaits of the source (repository lookup,      *)
(* take_screenshot, execute_action, get_current_dom/interpret_page,        *)
(* asyncio.sleep).  Every port call may return or raise.  The code between *)
(* two awaits is one step.                                                 *)
(*                                                                         *)
(* The executor takes its plans from plan_repository and never reads        *)
(* active_sessions; the registry never reads an action's status.  The two  *)
(* are checked as two specifications, SpecExecutor and SpecRegistry.       *)
(* SpecConcurrent is the executor serving two requests, one coroutine      *)
(* each, on one event loop that changes coroutine at the awaits.           *)
(*                                                                         *)
(* mie/services.py binds `datetime` to the module (line 3) and              *)
(* cpm/services.py does not bind it at all, so datetime.utcnow() raises in *)
(* both files as they are written (names.mie = names.cpm = FALSE).  The    *)
(* lines after those calls are checked too, under the binding the calls    *)
(* expect (TRUE), so that no claim about them is settled by the raise      *)
(* alone; the initial states take both values.  The same holds of         *)
(* openai_conversation.py (line 9 binds the module; lines 152 and 165      *)
(* call datetime.utcnow()), names.oai.                                     *)
(*                                                                         *)
(* Task management (backend_manus): TaskService with its in-memory store   *)
(* _tasks, the workflow table TASK_WORKFLOW_TRANSITIONS and the            *)
(* complete_task endpoint, checked as the specification SpecTasks.  Of a   *)
(* task the status and completed_at are kept; of a TaskUpdate, for each of *)
(* the two fields, whether it was set, and to null or to a value           *)
(* (TaskUpdate.dict(exclude_unset=True) keeps a field that was set to      *)
(* null).                                                                  *)
(*                                                                         *)
(* Cache (backend_manus): CacheAdapter with cache_type "memory", its two   *)
(* dictionaries and the clock time.time() reads, counted in whole seconds, *)
(* checked as the specification SpecCache.                                 *)
(*                                                                         *)
(* Not modelled: execution_log (written, never read), execution_time_ms,   *)
(* result_data, screenshot contents, TaskPlan.status (never read or        *)
(* written by the executor or the registry).                               *)
(***************************************************************************)
EXTENDS Integers, Sequences, FiniteSets, TLC

\* ------------------------------------------------------------------ bounds
MaxActions == 2      \* longest plan held by plan_repository
MaxPlans == 2        \* TaskPlan objects ever created
MaxKeys == 1         \* cache keys in use
MaxTtl == 1          \* longest ttl passed to CacheAdapter.set
MaxTime == 3         \* last reading of time.time()
MaxSessions == 2     \* session ids
MaxHistory == 2      \* longest conversation_history
MaxNewActions == 1   \* longest plan the planner returns to the registry
MaxSwitches == 2     \* times the event loop changes coroutine
MaxTasks == 2        \* tasks ever created by TaskService

\* ------------------------------------------------------- program constants
DEFAULT_MAX_RETRIES == 3

PENDING == "pending"
IN_PROGRESS == "in_progress"
COMPLETED == "completed"
FAILED == "failed"
CANCELLED == "cancelled"
TaskStatus == {PENDING, IN_PROGRESS, COMPLETED, FAILED, CANCELLED}

PlanIds == 1..MaxPlans
SessionIds == 1..MaxSessions
NoPlan == 0          \* key absent from active_sessions / unknown plan id
NoContext == 0       \* a context that belongs to no session of the registry

VARIABLES
    plans,            \* the TaskPlan objects, by plan id (1..Len(plans))
    active_sessions,  \* ConversationalPlanManager.active_sessions
    history,          \* context.conversation_history of each session
    run,              \* the execute_task_plan / execute_plan coroutine
    obs,              \* what the current run has done so far (history variable)
    cpm_last,         \* the last registry call and how it ended
    names,            \* whether datetime.utcnow() can be evaluated in
                      \* mie/services.py (.mie), cpm/services.py (.cpm)
                      \* and adapters/openai_conversation.py (.oai)
    peer,             \* a second execute_task_plan coroutine of the same
                      \* event loop, suspended while `run` is being run
    clar,             \* a handle_clarification coroutine, await by await
    tasks,            \* TaskService._tasks (backend_manus), by creation order
    task_last,        \* the last TaskService / tasks endpoint call
    memory_cache,     \* CacheAdapter._memory_cache
    memory_expiry,    \* CacheAdapter._memory_expiry
    clock,            \* what time.time() returns
    cache_last,       \* the last CacheAdapter call and what it returned
    last_set          \* of each key, its most recent set since it was last
                      \* deleted or cleared (history variable)

\* the state of backend_claude and the state of backend_manus
backend_claude ==
    <<plans, active_sessions, history, run, obs, cpm_last, names, peer, clar>>

cache == <<memory_cache, memory_expiry, clock, cache_last, last_set>>

backend_manus == <<tasks, task_last, cache>>

vars == <<backend_claude, backend_manus>>

\* ---------------------------------------------------------------- records
\* TaskAction(id, ..., retry_count=0, max_retries=3, status=PENDING)
TaskAction(i) ==
    [id |-> i, retry_count |-> 0, max_retries |-> DEFAULT_MAX_RETRIES,
     status |-> PENDING]

\* TaskPlan(actions=[...], context=ctx, checkpoints=[...])
TaskPlan(n, ctx) ==
    [actions |-> [i \in 1..n |-> TaskAction(i)], context |-> ctx,
     checkpoints |-> {}]

\* ExecutionResult(action_id, success, error_message)
ExecutionResult(id, ok, err) ==
    [action_id |-> id, success |-> ok, error |-> err]

IdleRun ==
    [pc |-> "idle", plan |-> NoPlan, authorized |-> FALSE, idx |-> 0,
     results |-> <<>>, success |-> FALSE, error |-> "none",
     outcome |-> "none", summary_success |-> FALSE]

\* What the current call of execute_task_plan has done so far:
\*   port_calls     ActionPort methods invoked
\*   attempts       the calls of _execute_with_verification, in order: the
\*                  action's position, its retry_count when the attempt began,
\*                  how the capture of the pre-action screenshot ended,
\*                  what execute_action reported ("none" before it is called),
\*                  the judge's verdict ("none" when the judge was not asked)
\*   fault          some ActionPort / VLI call raised
\*   failed_at      position of the action line 62 set to FAILED (0: none)
\*   cancel_before  position of the action whose attempt had not begun when
\*                  the task was cancelled (0: not cancelled there)
\*   all_terminal   every action was Completed or Failed when execute_plan began
\*   fresh          every action was Pending with retry_count 0 at that time
\*   has_prev/prev  the previous call was on the same plan and returned prev
NoObs ==
    [port_calls |-> 0, attempts |-> <<>>, fault |-> FALSE, failed_at |-> 0,
     cancel_before |-> 0, all_terminal |-> FALSE, fresh |-> FALSE,
     has_prev |-> FALSE, prev |-> <<>>]

\* The last call of the registry: the method, its session id, how it ended,
\* the ConversationPort methods it invoked, the plan it returned, the plan
\* it replaced, and how the planner's request went when generate_plan was
\* called ("none" when it was not).
NoCall ==
    [op |-> "none", session |-> 0, outcome |-> "none", port_calls |-> 0,
     plan |-> NoPlan, replaced |-> NoPlan, generation |-> "none"]

\* CacheAdapter: keys, cached values, the ttl argument of set
Keys == 1..MaxKeys
Values == {"a", "b"}
Ttls == -1..MaxTtl
None == "None"            \* what get returns for no value
Missing == "missing"      \* key not in self._memory_cache
NoExpiry == -1            \* key not in self._memory_expiry

NoCacheCall == [op |-> "none", key |-> 0, at |-> 0, returned |-> None]

NoSet == [live |-> FALSE, at |-> 0, ttl |-> 0, value |-> None]

\* CacheAdapter.__init__, lines 32-33: both dictionaries empty
InitCache ==
    /\ memory_cache = [k \in Keys |-> Missing]
    /\ memory_expiry = [k \in Keys |-> NoExpiry]
    /\ clock = 0
    /\ cache_last = NoCacheCall
    /\ last_set = [k \in Keys |-> NoSet]

\* The coroutine that is not being run: its frame, its history, and the
\* number of times the event loop has changed coroutine.
NoPeer == [run |-> IdleRun, obs |-> NoObs, switches |-> 0]

\* The frame of handle_clarification: where it is, its session_id, the local
\* `plan` (line 84), the local `new_plan` (line 94), how it ended and the plan
\* it returned.
NoClarification ==
    [pc |-> "idle", session |-> 0, plan |-> NoPlan, new_plan |-> NoPlan,
     outcome |-> "none", returned |-> NoPlan]

\* The last call of TaskService or of the tasks endpoints: the method, the
\* task id, how it ended and the TaskUpdate it was given.
NoUpdate == [status |-> "unset", completed_at |-> "unset"]

NoTaskCall == [op |-> "none", id |-> 0, outcome |-> "none", update |-> NoUpdate]

\* plan_repository holds one plan as the planner built it; the registry is
\* not used.
InitExecutor ==
    /\ plans \in {<<TaskPlan(n, NoContext)>> : n \in 0..MaxActions}
    /\ active_sessions = [s \in SessionIds |-> NoPlan]
    /\ history = [s \in SessionIds |-> <<>>]
    /\ run = IdleRun
    /\ obs = NoObs
    /\ cpm_last = NoCall
    /\ names \in [mie : BOOLEAN, cpm : {FALSE}, oai : {FALSE}]
    /\ peer = NoPeer
    /\ clar = NoClarification
    /\ tasks = <<>>
    /\ task_last = NoTaskCall
    /\ InitCache

\* ConversationalPlanManager.__init__: active_sessions = {}.
InitRegistry ==
    /\ plans = <<>>
    /\ active_sessions = [s \in SessionIds |-> NoPlan]
    /\ history = [s \in SessionIds |-> <<>>]
    /\ run = IdleRun
    /\ obs = NoObs
    /\ cpm_last = NoCall
    /\ names \in [mie : {FALSE}, cpm : BOOLEAN, oai : BOOLEAN]
    /\ peer = NoPeer
    /\ clar = NoClarification
    /\ tasks = <<>>
    /\ task_last = NoTaskCall
    /\ InitCache

\* ------------------------------------------------- MultimodalInteractionExecutor
\* The awaits of execute_task_plan / execute_plan / _execute_with_verification
\* / _verify_action_outcome: the points where the coroutine is suspended.
Awaits == {"lookup", "shot_before", "exec", "shot_after", "verify", "settle"}

\* OutcomeJudge.verify -> bool.  The body of _verify_action_outcome in the
\* source is a placeholder for the vision-model comparison; the verdicts the
\* judge can give are taken from the port contract.
JudgeVerdicts == BOOLEAN

PlanExists(p) == p \in 1..Len(plans)

Actions(p) == plans[p].actions

AllSuccess(res) == \A k \in 1..Len(res) : res[k].success

\* `continue` inside `for action in plan.actions`: the loop takes the next
\* element of the list.
Continue(idx) == idx + 1

\* a loop that counts every failed attempt, the one that gives the action up
\* too
DecideCountingEveryFailure(a, ok) ==
    IF ~ok
    THEN IF a.retry_count < a.max_retries
         THEN [action |-> [a EXCEPT !.retry_count = a.retry_count + 1,
                                    !.status = PENDING],
               flow |-> "continue"]
         ELSE [action |-> [a EXCEPT !.retry_count = a.retry_count + 1,
                                    !.status = FAILED],
               flow |-> "break"]
    ELSE [action |-> [a EXCEPT !.status = COMPLETED], flow |-> "settle"]

\* execute_plan lines 53-65: what the loop does with the result of an attempt.
Decide(a, ok) ==
    IF ~ok
    THEN IF a.retry_count < a.max_retries
         THEN [action |-> [a EXCEPT !.retry_count = a.retry_count + 1,
                                    !.status = PENDING],
               flow |-> "continue"]
         ELSE [action |-> [a EXCEPT !.status = FAILED], flow |-> "break"]
    ELSE [action |-> [a EXCEPT !.status = COMPLETED], flow |-> "settle"]

\* execute_plan returns `res` (line 82) and execute_task_plan builds its
\* summary (lines 167-183).
Finish(res) ==
    run' = [run EXCEPT !.pc = "done", !.results = res,
                       !.outcome = "returned",
                       !.summary_success = AllSuccess(res)]

\* a loop that starts the list over when it has reached its end
IterateCycling(idx, res) ==
    IF Len(Actions(run.plan)) > 0
    THEN run' = [run EXCEPT !.pc = "shot_before",
                            !.idx = IF idx <= Len(Actions(run.plan))
                                    THEN idx ELSE 1,
                            !.results = <<>>]
    ELSE Finish(res)

\* The for statement takes its next action, from position `idx`, or ends.
Iterate(idx, res) ==
    IF idx <= Len(Actions(run.plan))
    THEN run' = [run EXCEPT !.pc = "shot_before", !.idx = idx,
                            !.results = res]
    ELSE Finish(res)

\* except Exception (lines 70-80): a failure result is appended and the loop
\* is left; the action is not touched.
Except(res) ==
    Finish(Append(res, ExecutionResult(Actions(run.plan)[run.idx].id, FALSE,
                                       "exception")))

PortCall == [obs EXCEPT !.port_calls = obs.port_calls + 1]

\* The attempt in progress takes note of what a port answered.
Noting(o, field, value) ==
    [o EXCEPT !.attempts[Len(o.attempts)][field] = value]

Terminal(a) == a.status \in {COMPLETED, FAILED}

Untouched(a) == a.status = PENDING /\ a.retry_count = 0

\* AccessibilityService.execute_task_plan(plan_id, user_id) is called.
ExecuteTaskPlan(p, auth) ==
    /\ run.pc \in {"idle", "done"}
    /\ run' = [IdleRun EXCEPT !.pc = "lookup", !.plan = p, !.authorized = auth]
    /\ obs' = [NoObs EXCEPT
                  !.has_prev = run.outcome = "returned" /\ run.plan = p,
                  !.prev = IF run.outcome = "returned" /\ run.plan = p
                           THEN run.results ELSE <<>>]
    /\ UNCHANGED <<plans, active_sessions, history, cpm_last, names, peer, clar, backend_manus>>

\* an execute_task_plan that looks the plan up but does not compare its owner
\* with the caller
GetTaskPlanAnyOwner ==
    /\ run.pc = "lookup"
    /\ IF ~PlanExists(run.plan)
       THEN /\ run' = [run EXCEPT !.pc = "done", !.outcome = "error"]
            /\ UNCHANGED obs
       ELSE /\ obs' = obs
            /\ Iterate(1, <<>>)
    /\ UNCHANGED <<plans, active_sessions, history, cpm_last, names, peer, clar, backend_manus>>

\* plan_repository.get_task_plan returns; the owner check; execute_plan starts.
GetTaskPlan ==
    /\ run.pc = "lookup"
    /\ IF ~PlanExists(run.plan) \/ ~run.authorized
       THEN \* line 162, caught by line 185
            /\ run' = [run EXCEPT !.pc = "done", !.outcome = "error"]
            /\ UNCHANGED obs
       ELSE \/ \* the repository raises: caught by line 185
               /\ run' = [run EXCEPT !.pc = "done", !.outcome = "error"]
               /\ UNCHANGED obs
            \/ /\ obs' = [obs EXCEPT
                            !.all_terminal =
                               \A i \in 1..Len(Actions(run.plan)) :
                                  Terminal(Actions(run.plan)[i]),
                            !.fresh =
                               \A i \in 1..Len(Actions(run.plan)) :
                                  Untouched(Actions(run.plan)[i])]
               /\ Iterate(1, <<>>)
    /\ UNCHANGED <<plans, active_sessions, history, cpm_last, names, peer, clar, backend_manus>>

\* _execute_with_verification begins:
\* screenshot_before = await take_screenshot()  (line 91)
TakeScreenshotBefore ==
    /\ run.pc = "shot_before"
    /\ LET began == [PortCall EXCEPT !.attempts = Append(obs.attempts,
                        [action |-> run.idx,
                         retry_count |-> Actions(run.plan)[run.idx].retry_count,
                         snapshot |-> "none",
                         reported |-> "none", verdict |-> "none"])]
       IN \/ \* the call raises
             /\ obs' = [Noting(began, "snapshot", "fault") EXCEPT !.fault = TRUE]
             /\ Except(run.results)
          \/ /\ obs' = Noting(began, "snapshot", "taken")
             /\ run' = [run EXCEPT !.pc = "exec"]
    /\ UNCHANGED <<plans, active_sessions, history, cpm_last, names, peer, clar, backend_manus>>

\* result = await execute_action(action)  (line 94)
ExecuteAction ==
    /\ run.pc = "exec"
    /\ \/ \* the call raises
          /\ obs' = [Noting(PortCall, "reported", "raise") EXCEPT !.fault = TRUE]
          /\ Except(run.results)
       \/ \* result.success is false: lines 114-117
          /\ obs' = Noting(PortCall, "reported", "failure")
          /\ run' = [run EXCEPT !.pc = "append", !.success = FALSE,
                                !.error = "reported"]
       \/ \* result.success is true: line 98
          /\ obs' = Noting(PortCall, "reported", "success")
          /\ run' = [run EXCEPT !.pc = "shot_after", !.success = TRUE,
                                !.error = "none"]
    /\ UNCHANGED <<plans, active_sessions, history, cpm_last, names, peer, clar, backend_manus>>

\* await asyncio.sleep(2); screenshot_after = await take_screenshot()
TakeScreenshotAfter ==
    /\ run.pc = "shot_after"
    /\ \/ \* the call raises
          /\ obs' = [PortCall EXCEPT !.fault = TRUE]
          /\ Except(run.results)
       \/ /\ obs' = PortCall
          /\ run' = [run EXCEPT !.pc = "verify"]
    /\ UNCHANGED <<plans, active_sessions, history, cpm_last, names, peer, clar, backend_manus>>

\* _verify_action_outcome: get_current_dom, interpret_page, the verdict; then
\* lines 110-112 of _execute_with_verification.
VerifyActionOutcome ==
    /\ run.pc = "verify"
    /\ \/ \* get_current_dom or interpret_page raises
          /\ obs' = [PortCall EXCEPT !.fault = TRUE]
          /\ Except(run.results)
       \/ \E verdict \in JudgeVerdicts :
            /\ obs' = Noting(PortCall, "verdict",
                             IF verdict THEN "pass" ELSE "reject")
            /\ run' = [run EXCEPT !.pc = "append", !.success = verdict,
                                  !.error = IF verdict THEN "none" ELSE "outcome"]
    /\ UNCHANGED <<plans, active_sessions, history, cpm_last, names, peer, clar, backend_manus>>

\* execute_plan lines 43-65: results.append(result); the execution_log entry
\* with its timestamp; the retry / fail / complete decision.
\* names.mie = FALSE is mie/services.py as written: `import datetime` (line 3)
\* binds the module, and datetime.utcnow() (line 50) raises AttributeError,
\* which line 70 catches.  names.mie = TRUE is the file with the import the
\* call expects (the class, as in cpm/models.py line 5).
AppendResult ==
    /\ run.pc = "append"
    /\ LET a == Actions(run.plan)[run.idx]
           res == Append(run.results,
                         ExecutionResult(a.id, run.success, run.error))
           d == Decide(a, run.success)
       IN IF ~names.mie
          THEN /\ Except(res)
               /\ UNCHANGED <<plans, obs>>
          ELSE /\ plans' = [plans EXCEPT ![run.plan].actions[run.idx] = d.action]
               /\ obs' = [obs EXCEPT !.failed_at =
                             IF d.flow = "break" THEN run.idx ELSE @]
               /\ CASE d.flow = "continue" -> Iterate(Continue(run.idx), res)
                    [] d.flow = "break" -> Finish(res)
                    [] d.flow = "settle" ->
                         run' = [run EXCEPT !.pc = "settle", !.results = res]
    /\ UNCHANGED <<active_sessions, history, cpm_last, names, peer, clar, backend_manus>>

\* await asyncio.sleep(1) (line 68) ends; the loop goes on.
Settle ==
    /\ run.pc = "settle"
    /\ Iterate(run.idx + 1, run.results)
    /\ UNCHANGED <<plans, active_sessions, history, obs, cpm_last, names, peer, clar, backend_manus>>

\* The task running the coroutine is cancelled while it is suspended:
\* CancelledError is raised at the await.  It is not an Exception, so neither
\* line 70 of execute_plan nor line 185 of execute_task_plan catches it, and
\* no list is returned.
CancelTask ==
    /\ run.pc \in Awaits
    /\ run' = [run EXCEPT !.pc = "done", !.outcome = "cancelled"]
    /\ obs' = [obs EXCEPT !.cancel_before =
                  CASE run.pc = "lookup" -> 1
                    [] run.pc = "settle" -> run.idx + 1
                    [] OTHER -> 0]
    /\ UNCHANGED <<plans, active_sessions, history, cpm_last, names, peer, clar, backend_manus>>

\* execute_task_plan is a coroutine and holds no lock: while one call is
\* suspended at an await (or has not been started, or is over), the event
\* loop runs the other one.
Switch ==
    /\ run.pc \in Awaits \cup {"idle", "done"}
    /\ peer.switches < MaxSwitches
    /\ run' = peer.run
    /\ obs' = peer.obs
    /\ peer' = [run |-> run, obs |-> obs, switches |-> peer.switches + 1]
    /\ UNCHANGED <<plans, active_sessions, history, cpm_last, names, clar, backend_manus>>

\* ------------------------------------------------- ConversationalPlanManager
CpmReturn(op, s, outcome, calls, p, old, gen) ==
    [op |-> op, session |-> s, outcome |-> outcome, port_calls |-> calls,
     plan |-> p, replaced |-> old, generation |-> gen]

\* how the request to the planning model ends (chat.completions.create and
\* the parsing of its answer, lines 115-144)
Requests == {"ok", "failed"}

\* OpenAIConversationAdapter.generate_plan answers with a plan of n actions
\* when the request succeeded (lines 146-155) and with the minimal plan, which
\* has no action, when it failed (except Exception, lines 157-168).
PlanSize(request, n) == IF request = "ok" THEN n ELSE 0

\* generate_plan returns a plan only if lines 152 / 165 can be evaluated; it
\* raises otherwise, and also when intent has no "goal" (lines 148 and 161).
CanReturnPlan == names.oai

\* a history that keeps only its most recent entry
AppendEntryKeepingLast(h, role) == <<role>>

\* lines 44 and 64: context.conversation_history.append({"role": role, ...})
AppendEntry(h, role) == Append(h, role)

\* process_user_message(user_message, context, scene_graph), lines 34-71, on
\* the context of session s; the planner's request ends as `request` and asks
\* for n actions.
ProcessUserMessage(s, n, request) ==
    /\ \/ \* line 47: the name datetime is not defined in cpm/services.py
          /\ ~names.cpm
          /\ n = 0 /\ request = "ok"     \* neither is read on this path
          /\ cpm_last' = CpmReturn("process_user_message", s, "NameError", 0,
                                   NoPlan, NoPlan, "none")
          /\ UNCHANGED <<plans, active_sessions, history>>
       \/ \* understand_intent raises
          /\ names.cpm
          /\ n = 0 /\ request = "ok"     \* neither is read on this path
          /\ Len(history[s]) + 1 <= MaxHistory
          /\ history' = [history EXCEPT ![s] = AppendEntry(@, "user")]
          /\ cpm_last' = CpmReturn("process_user_message", s, "fault", 1,
                                   NoPlan, NoPlan, "none")
          /\ UNCHANGED <<plans, active_sessions>>
       \/ \* generate_plan raises
          /\ names.cpm
          /\ n = 0                       \* no plan is built on this path
          /\ Len(history[s]) + 1 <= MaxHistory
          /\ history' = [history EXCEPT ![s] = AppendEntry(@, "user")]
          /\ cpm_last' = CpmReturn("process_user_message", s, "fault", 2,
                                   NoPlan, NoPlan, request)
          /\ UNCHANGED <<plans, active_sessions>>
       \/ \* lines 57-71
          /\ names.cpm
          /\ CanReturnPlan
          /\ Len(history[s]) + 2 <= MaxHistory
          /\ Len(plans) < MaxPlans
          /\ plans' = Append(plans, TaskPlan(PlanSize(request, n), s))
          /\ active_sessions' = [active_sessions EXCEPT ![s] = Len(plans) + 1]
          /\ history' = [history EXCEPT
                            ![s] = AppendEntry(AppendEntry(@, "user"), "assistant")]
          /\ cpm_last' = CpmReturn("process_user_message", s, "plan", 2,
                                   Len(plans) + 1, NoPlan, request)
    /\ UNCHANGED <<run, obs, names, peer, clar, backend_manus>>

\* line 81: session_id not in self.active_sessions
SessionMissing(s) == active_sessions[s] = NoPlan

\* a registry that opens an entry for the unknown session id before it raises
RaiseSessionNotFoundCreating(s) ==
    /\ cpm_last' = CpmReturn("handle_clarification", s, "SessionNotFound", 0,
                             NoPlan, NoPlan, "none")
    /\ plans' = Append(plans, TaskPlan(0, s))
    /\ active_sessions' = [active_sessions EXCEPT ![s] = Len(plans) + 1]

\* line 82: raise ValueError(f"Session {session_id} not found")
RaiseSessionNotFound(s) ==
    /\ cpm_last' = CpmReturn("handle_clarification", s, "SessionNotFound", 0,
                             NoPlan, NoPlan, "none")
    /\ UNCHANGED <<plans, active_sessions>>

\* lines 98-99: the new plan takes the old plan's context and the session's
\* entry; the old plan object is left as it is.
ReplacePlan(s, old, n) ==
    /\ plans' = Append(plans, TaskPlan(n, plans[old].context))
    /\ active_sessions' = [active_sessions EXCEPT ![s] = Len(plans) + 1]

\* handle_clarification(session_id, clarification), lines 73-102; when a plan
\* is asked for, the planner's request ends as `request` and asks for n
\* actions.
HandleClarification(s, n, request) ==
    /\ IF SessionMissing(s)
       THEN /\ n = 0 /\ request = "ok"   \* neither is read on this path
            /\ RaiseSessionNotFound(s)
       ELSE LET old == active_sessions[s] IN
            \/ \* understand_intent raises
               /\ n = 0 /\ request = "ok"
               /\ cpm_last' = CpmReturn("handle_clarification", s, "fault", 1,
                                        NoPlan, NoPlan, "none")
               /\ UNCHANGED <<plans, active_sessions>>
            \/ \* requires_replanning absent or false: line 102
               /\ n = 0 /\ request = "ok"
               /\ cpm_last' = CpmReturn("handle_clarification", s, "kept", 1,
                                        old, NoPlan, "none")
               /\ UNCHANGED <<plans, active_sessions>>
            \/ \* requires_replanning, generate_plan raises
               /\ n = 0
               /\ cpm_last' = CpmReturn("handle_clarification", s, "fault", 2,
                                        NoPlan, NoPlan, request)
               /\ UNCHANGED <<plans, active_sessions>>
            \/ \* requires_replanning, lines 94-100
               /\ CanReturnPlan
               /\ Len(plans) < MaxPlans
               /\ ReplacePlan(s, old, PlanSize(request, n))
               /\ cpm_last' = CpmReturn("handle_clarification", s, "replanned", 2,
                                        Len(plans) + 1, old, request)
    /\ UNCHANGED <<history, run, obs, names, peer, clar, backend_manus>>

\* ---------------------------------- handle_clarification, await by await
\* The same method as HandleClarification, as the coroutine it is: it is
\* suspended in understand_intent (line 87) and in generate_plan (line 94),
\* and lines 98 and 99 are two statements.  Other coroutines, and readers of
\* active_sessions, run in between.
ClarEnd(outcome, p) ==
    clar' = [clar EXCEPT !.pc = "done", !.outcome = outcome, !.returned = p]

\* lines 81-87: the membership test, plan = active_sessions[session_id], and
\* the call of understand_intent
ClarBegin(s) ==
    /\ clar.pc \in {"idle", "done"}
    /\ IF SessionMissing(s)
       THEN clar' = [NoClarification EXCEPT !.pc = "done", !.session = s,
                                            !.outcome = "SessionNotFound"]
       ELSE clar' = [NoClarification EXCEPT !.pc = "intent", !.session = s,
                                            !.plan = active_sessions[s]]
    /\ UNCHANGED <<plans, active_sessions, history, run, obs, cpm_last, names,
                   peer, backend_manus>>

\* a handle_clarification that hands out a plan rebuilt from the stored one
\* when no replanning is required
ClarIntentRebuilding ==
    /\ clar.pc = "intent"
    /\ \/ /\ ClarEnd("fault", NoPlan)
          /\ UNCHANGED plans
       \/ /\ ClarEnd("kept", clar.plan)
          /\ plans' = [plans EXCEPT ![clar.plan] =
                          [@ EXCEPT !.actions =
                              [i \in 1..Len(@) |-> TaskAction(i)]]]
       \/ /\ clar' = [clar EXCEPT !.pc = "generate"]
          /\ UNCHANGED plans
    /\ UNCHANGED <<active_sessions, history, run, obs, cpm_last, names, peer,
                   backend_manus>>

\* understand_intent returns or raises; lines 93 and 102
ClarIntent ==
    /\ clar.pc = "intent"
    /\ \/ \* understand_intent raises
          ClarEnd("fault", NoPlan)
       \/ \* requires_replanning absent or false: return plan (line 102)
          ClarEnd("kept", clar.plan)
       \/ \* requires_replanning: generate_plan is called (line 94)
          clar' = [clar EXCEPT !.pc = "generate"]
    /\ UNCHANGED <<plans, active_sessions, history, run, obs, cpm_last, names,
                   peer, backend_manus>>

\* a handle_clarification that puts the new plan into active_sessions as soon
\* as generate_plan has returned it, before its context is set
ClarGenerateStoring(n, request) ==
    /\ clar.pc = "generate"
    /\ CanReturnPlan
    /\ Len(plans) < MaxPlans
    /\ plans' = Append(plans, TaskPlan(PlanSize(request, n), NoContext))
    /\ active_sessions' = [active_sessions EXCEPT ![clar.session] = Len(plans) + 1]
    /\ clar' = [clar EXCEPT !.pc = "context", !.new_plan = Len(plans) + 1]
    /\ UNCHANGED <<history, run, obs, cpm_last, names, peer, backend_manus>>

\* generate_plan returns new_plan, with context=None (openai_conversation.py
\* lines 150 and 163), or raises
ClarGenerate(n, request) ==
    /\ clar.pc = "generate"
    /\ \/ /\ ClarEnd("fault", NoPlan)
          /\ UNCHANGED plans
       \/ /\ CanReturnPlan
          /\ Len(plans) < MaxPlans
          /\ plans' = Append(plans, TaskPlan(PlanSize(request, n), NoContext))
          /\ clar' = [clar EXCEPT !.pc = "context", !.new_plan = Len(plans) + 1]
    /\ UNCHANGED <<active_sessions, history, run, obs, cpm_last, names, peer,
                   backend_manus>>

\* line 98: new_plan.context = plan.context
ClarSetContext ==
    /\ clar.pc = "context"
    /\ plans' = [plans EXCEPT ![clar.new_plan].context = plans[clar.plan].context]
    /\ clar' = [clar EXCEPT !.pc = "store"]
    /\ UNCHANGED <<active_sessions, history, run, obs, cpm_last, names, peer,
                   backend_manus>>

\* lines 99-100: active_sessions[session_id] = new_plan; return new_plan
ClarStore ==
    /\ clar.pc = "store"
    /\ active_sessions' = [active_sessions EXCEPT ![clar.session] = clar.new_plan]
    /\ ClarEnd("replanned", clar.new_plan)
    /\ UNCHANGED <<plans, history, run, obs, cpm_last, names, peer,
                   backend_manus>>

\* ------------------------------------------------------ TaskService (manus)
\* app/schemas/tasks.py, class TaskStatus
SchemasTaskStatus == {PENDING, IN_PROGRESS, COMPLETED, CANCELLED}

\* a status / completed_at of None
Null == "null"

TaskIds == 1..MaxTasks

\* the (from_status, to_status) pairs of TASK_WORKFLOW_TRANSITIONS
TASK_WORKFLOW_TRANSITIONS ==
    {<<PENDING, IN_PROGRESS>>, <<IN_PROGRESS, COMPLETED>>,
     <<IN_PROGRESS, PENDING>>, <<PENDING, CANCELLED>>,
     <<IN_PROGRESS, CANCELLED>>, <<CANCELLED, PENDING>>}

is_transition_allowed(from_status, to_status) ==
    <<from_status, to_status>> \in TASK_WORKFLOW_TRANSITIONS

\* the TaskUpdate objects: each field unset, set to null, or set to a value
TaskUpdates ==
    [status : {"unset", Null} \cup SchemasTaskStatus,
     completed_at : {"unset", Null, "date"}]

\* an entry of _tasks; `stored` is false once delete_task has removed it
NewTask == [stored |-> TRUE, status |-> PENDING, completed_at |-> Null]

Stored(id) == id \in 1..Len(tasks) /\ tasks[id].stored

\* Task(**task_data): the model validation; status is a required TaskStatus
Validates(t) == t.status \in SchemasTaskStatus

TaskReturn(op, id, outcome, u) ==
    [op |-> op, id |-> id, outcome |-> outcome, update |-> u]

\* update_task lines 140-157: the transition check, then
\* task_dict.update(task_update.dict(exclude_unset=True)).
\* `refused`: line 144 raised; `task`: the entry line 157 stores.
ApplyUpdate(t, u) ==
    IF /\ u.status \notin {"unset", Null}
       /\ u.status # t.status
       /\ ~is_transition_allowed(t.status, u.status)
    THEN [refused |-> TRUE, task |-> t]
    ELSE [refused |-> FALSE,
          task |-> [t EXCEPT
                      !.status = IF u.status = "unset" THEN @ ELSE u.status,
                      !.completed_at =
                          IF u.completed_at = "unset" THEN @ ELSE u.completed_at]]

\* TaskService.create_task, lines 48-91
CreateTask ==
    /\ Len(tasks) < MaxTasks
    /\ tasks' = Append(tasks, NewTask)
    /\ task_last' = TaskReturn("create_task", Len(tasks) + 1, "task", NoUpdate)
    /\ UNCHANGED <<backend_claude, cache>>

\* TaskService.update_task(task_id, task_update), lines 114-160
UpdateTask(id, u) ==
    /\ IF ~Stored(id)
       THEN \* line 135
            /\ task_last' = TaskReturn("update_task", id, "ValueError", u)
            /\ UNCHANGED tasks
       ELSE LET r == ApplyUpdate(tasks[id], u) IN
            IF r.refused
            THEN \* line 144
                 /\ task_last' = TaskReturn("update_task", id, "ValueError", u)
                 /\ UNCHANGED tasks
            ELSE \* line 157, then Task(**task_dict) at line 160
                 /\ tasks' = [tasks EXCEPT ![id] = r.task]
                 /\ task_last' = TaskReturn("update_task", id,
                                    IF Validates(r.task) THEN "task"
                                    ELSE "ValidationError", u)
    /\ UNCHANGED <<backend_claude, cache>>

\* TaskService.delete_task, lines 162-182
DeleteTask(id) ==
    /\ IF ~Stored(id)
       THEN /\ task_last' = TaskReturn("delete_task", id, "ValueError", NoUpdate)
            /\ UNCHANGED tasks
       ELSE /\ tasks' = [tasks EXCEPT ![id].stored = FALSE]
            /\ task_last' = TaskReturn("delete_task", id, "deleted", NoUpdate)
    /\ UNCHANGED <<backend_claude, cache>>

\* the TaskUpdate of the complete_task endpoint, lines 318-321
CompletedNow == [status |-> COMPLETED, completed_at |-> "date"]

\* POST /{task_id}/complete, lines 288-334: get_task, then update_task
CompleteTask(id) ==
    /\ IF ~Stored(id)
       THEN \* lines 310-315
            /\ task_last' = TaskReturn("complete_task", id, "404", CompletedNow)
            /\ UNCHANGED tasks
       ELSE IF ~Validates(tasks[id])
       THEN \* get_task raises at Task(**task_data); lines 329-334
            /\ task_last' = TaskReturn("complete_task", id, "500", CompletedNow)
            /\ UNCHANGED tasks
       ELSE LET r == ApplyUpdate(tasks[id], CompletedNow) IN
            IF r.refused
            THEN \* update_task raises ValueError; lines 329-334
                 /\ task_last' = TaskReturn("complete_task", id, "500", CompletedNow)
                 /\ UNCHANGED tasks
            ELSE /\ tasks' = [tasks EXCEPT ![id] = r.task]
                 /\ task_last' = TaskReturn("complete_task", id, "task", CompletedNow)
    /\ UNCHANGED <<backend_claude, cache>>

\* ------------------------------------------------------------ CacheAdapter
CacheReturn(op, k, value) ==
    [op |-> op, key |-> k, at |-> clock, returned |-> value]

\* line 156: key in self._memory_expiry and self._memory_expiry[key] < time.time()
Expired(k) == memory_expiry[k] # NoExpiry /\ memory_expiry[k] < clock

\* _set_memory lines 186-187: if ttl > 0: _memory_expiry[key] = time.time() + ttl
SetExpiry(k, ttl) ==
    IF ttl > 0 THEN [memory_expiry EXCEPT ![k] = clock + ttl]
    ELSE memory_expiry

\* set(key, value, ttl) -> _set_memory, lines 165-189
CacheSet(k, v, ttl) ==
    /\ memory_cache' = [memory_cache EXCEPT ![k] = v]
    /\ memory_expiry' = SetExpiry(k, ttl)
    /\ cache_last' = CacheReturn("set", k, "True")
    /\ last_set' = [last_set EXCEPT ![k] = [live |-> TRUE, at |-> clock,
                                            ttl |-> ttl, value |-> v]]
    /\ UNCHANGED <<clock, backend_claude, tasks, task_last>>

\* get(key) -> _get_memory, lines 141-163
CacheGet(k) ==
    /\ IF memory_cache[k] = Missing
       THEN /\ cache_last' = CacheReturn("get", k, None)
            /\ UNCHANGED <<memory_cache, memory_expiry>>
       ELSE IF Expired(k)
       THEN /\ memory_cache' = [memory_cache EXCEPT ![k] = Missing]
            /\ memory_expiry' = [memory_expiry EXCEPT ![k] = NoExpiry]
            /\ cache_last' = CacheReturn("get", k, None)
       ELSE /\ cache_last' = CacheReturn("get", k, memory_cache[k])
            /\ UNCHANGED <<memory_cache, memory_expiry>>
    /\ UNCHANGED <<clock, last_set, backend_claude, tasks, task_last>>

\* delete(key) -> _delete_memory, lines 191-212
CacheDelete(k) ==
    /\ IF memory_cache[k] = Missing
       THEN /\ cache_last' = CacheReturn("delete", k, "False")
            /\ UNCHANGED <<memory_cache, memory_expiry>>
       ELSE /\ memory_cache' = [memory_cache EXCEPT ![k] = Missing]
            /\ memory_expiry' = [memory_expiry EXCEPT ![k] = NoExpiry]
            /\ cache_last' = CacheReturn("delete", k, "True")
    /\ last_set' = [last_set EXCEPT ![k] = NoSet]
    /\ UNCHANGED <<clock, backend_claude, tasks, task_last>>

\* clear() -> _clear_memory, lines 214-225
CacheClear ==
    /\ memory_cache' = [k \in Keys |-> Missing]
    /\ memory_expiry' = [k \in Keys |-> NoExpiry]
    /\ cache_last' = CacheReturn("clear", 0, "True")
    /\ last_set' = [k \in Keys |-> NoSet]
    /\ UNCHANGED <<clock, backend_claude, tasks, task_last>>

\* time passes between two calls
Tick ==
    /\ clock < MaxTime
    /\ clock' = clock + 1
    /\ UNCHANGED <<memory_cache, memory_expiry, cache_last, last_set,
                   backend_claude, tasks, task_last>>

NextExecutor ==
    \/ \E p \in PlanIds, auth \in BOOLEAN : ExecuteTaskPlan(p, auth)
    \/ GetTaskPlan
    \/ TakeScreenshotBefore
    \/ ExecuteAction
    \/ TakeScreenshotAfter
    \/ VerifyActionOutcome
    \/ AppendResult
    \/ Settle
    \/ CancelTask

NextRegistry ==
    \/ \E s \in SessionIds, n \in 0..MaxNewActions, request \in Requests :
          ProcessUserMessage(s, n, request)
    \/ \E s \in SessionIds, n \in 0..MaxNewActions, request \in Requests :
          HandleClarification(s, n, request)

SpecExecutor == InitExecutor /\ [][NextExecutor]_vars

SpecRegistry == InitRegistry /\ [][NextRegistry]_vars

\* Every call of a port, and asyncio.sleep, eventually returns or raises, and
\* the event loop then resumes the coroutine: each step of the run that is
\* enabled is eventually taken.  Cancellation is not forced.
ExecutorStep ==
    \/ GetTaskPlan
    \/ TakeScreenshotBefore
    \/ ExecuteAction
    \/ TakeScreenshotAfter
    \/ VerifyActionOutcome
    \/ AppendResult
    \/ Settle

SpecExecutorFair ==
    InitExecutor /\ [][NextExecutor]_vars /\ WF_vars(ExecutorStep)

\* process_user_message takes the caller's ConversationContext, whose
\* conversation_history may already hold entries of earlier turns: here
\* session 1 comes with one
InitHistory ==
    /\ plans = <<>>
    /\ active_sessions = [s \in SessionIds |-> NoPlan]
    /\ history = [s \in SessionIds |-> IF s = 1 THEN <<"assistant">> ELSE <<>>]
    /\ run = IdleRun
    /\ obs = NoObs
    /\ cpm_last = NoCall
    /\ names \in [mie : {FALSE}, cpm : BOOLEAN, oai : BOOLEAN]
    /\ peer = NoPeer
    /\ clar = NoClarification
    /\ tasks = <<>>
    /\ task_last = NoTaskCall
    /\ InitCache

SpecHistory == InitHistory /\ [][NextRegistry]_vars

\* plan_repository holds one plan whose checkpoints name some of its actions
InitCheckpoints ==
    /\ plans \in {<<[TaskPlan(n, NoContext) EXCEPT !.checkpoints = c]>> :
                    n \in 0..MaxActions, c \in SUBSET (1..MaxActions)}
    /\ \A i \in plans[1].checkpoints : i <= Len(plans[1].actions)
    /\ active_sessions = [s \in SessionIds |-> NoPlan]
    /\ history = [s \in SessionIds |-> <<>>]
    /\ run = IdleRun
    /\ obs = NoObs
    /\ cpm_last = NoCall
    /\ names \in [mie : BOOLEAN, cpm : {FALSE}, oai : {FALSE}]
    /\ peer = NoPeer
    /\ clar = NoClarification
    /\ tasks = <<>>
    /\ task_last = NoTaskCall
    /\ InitCache

SpecCheckpoints == InitCheckpoints /\ [][NextExecutor]_vars

\* a request reaches a coroutine that has not served one yet
Request(p, auth) ==
    /\ run.pc = "idle"
    /\ ExecuteTaskPlan(p, auth)

\* two requests served by one event loop, one coroutine each
NextConcurrent ==
    \/ \E p \in PlanIds, auth \in BOOLEAN : Request(p, auth)
    \/ GetTaskPlan
    \/ TakeScreenshotBefore
    \/ ExecuteAction
    \/ TakeScreenshotAfter
    \/ VerifyActionOutcome
    \/ AppendResult
    \/ Settle
    \/ CancelTask
    \/ Switch

SpecConcurrent == InitExecutor /\ [][NextConcurrent]_vars

\* Session 1 has an active plan, as process_user_message leaves it (which
\* takes names.cpm); the other sessions are unknown.
InitReplace ==
    /\ plans \in {<<TaskPlan(n, 1)>> : n \in 0..MaxActions}
    /\ active_sessions = [s \in SessionIds |-> IF s = 1 THEN 1 ELSE NoPlan]
    /\ history = [s \in SessionIds |->
                     IF s = 1 THEN <<"user", "assistant">> ELSE <<>>]
    /\ run = IdleRun
    /\ obs = NoObs
    /\ cpm_last = NoCall
    /\ names \in [mie : BOOLEAN, cpm : {TRUE}, oai : BOOLEAN]
    /\ peer = NoPeer
    /\ clar = NoClarification
    /\ tasks = <<>>
    /\ task_last = NoTaskCall
    /\ InitCache

\* one request to execute a plan and the clarifications of the sessions, on
\* one event loop
NextReplace ==
    \/ \E p \in PlanIds, auth \in BOOLEAN : Request(p, auth)
    \/ GetTaskPlan
    \/ TakeScreenshotBefore
    \/ ExecuteAction
    \/ TakeScreenshotAfter
    \/ VerifyActionOutcome
    \/ AppendResult
    \/ Settle
    \/ CancelTask
    \/ \E s \in SessionIds : ClarBegin(s)
    \/ ClarIntent
    \/ \E n \in 0..MaxNewActions, request \in Requests : ClarGenerate(n, request)
    \/ ClarSetContext
    \/ ClarStore

SpecReplace == InitReplace /\ [][NextReplace]_vars

NextTasks ==
    \/ CreateTask
    \/ \E id \in TaskIds, u \in TaskUpdates : UpdateTask(id, u)
    \/ \E id \in TaskIds : DeleteTask(id)
    \/ \E id \in TaskIds : CompleteTask(id)

\* TaskService.__init__: _tasks = {}
InitTasks ==
    /\ plans = <<>>
    /\ active_sessions = [s \in SessionIds |-> NoPlan]
    /\ history = [s \in SessionIds |-> <<>>]
    /\ run = IdleRun
    /\ obs = NoObs
    /\ cpm_last = NoCall
    /\ names = [mie |-> FALSE, cpm |-> FALSE, oai |-> FALSE]
    /\ peer = NoPeer
    /\ clar = NoClarification
    /\ tasks = <<>>
    /\ task_last = NoTaskCall
    /\ InitCache

SpecTasks == InitTasks /\ [][NextTasks]_vars

NextCache ==
    \/ \E k \in Keys, v \in Values, ttl \in Ttls : CacheSet(k, v, ttl)
    \/ \E k \in Keys : CacheGet(k)
    \/ \E k \in Keys : CacheDelete(k)
    \/ CacheClear
    \/ Tick

\* CacheAdapter.__init__ (InitCache), nothing else having run
SpecCache == InitTasks /\ [][NextCache]_vars

\* ---------------------------------------------------------------- claims
Returned == run.pc = "done" /\ run.outcome = "returned"

N == Len(Actions(run.plan))

Attempts == obs.attempts

\* the attempts of this call that passed action i to execute_action
Executed(i) ==
    {k \in 1..Len(Attempts) :
        Attempts[k].action = i /\ Attempts[k].reported # "none"}

\* no port raised, every execute_action reported success, every verdict passed
AllPortsSucceeded ==
    /\ ~obs.fault
    /\ \A k \in 1..Len(Attempts) :
          Attempts[k].reported = "success" /\ Attempts[k].verdict = "pass"

\* C1: when every execute_action call reports success and every outcome
\* verification passes, execute_plan returns exactly N results, all with
\* success = true, with the plan's action ids in plan order, and every action
\* is Completed.
C1_AllSucceed ==
    (Returned /\ AllPortsSucceeded) =>
        /\ Len(run.results) = N
        /\ \A i \in 1..N :
              /\ run.results[i].success
              /\ run.results[i].action_id = Actions(run.plan)[i].id
              /\ Actions(run.plan)[i].status = COMPLETED

\* a call in which each of the N >= 1 actions was attempted with full success
C1_Witness ==
    /\ Returned /\ AllPortsSucceeded
    /\ N = MaxActions
    /\ Len(Attempts) >= 1

\* every attempt of action i in this call was answered "failure" by
\* execute_action, and there was one
AlwaysReportedFailure(i) ==
    /\ Executed(i) # {}
    /\ \A k \in 1..Len(Attempts) :
          Attempts[k].action = i => Attempts[k].reported = "failure"

\* C2: if execute_action reports failure on every attempt of an action,
\* execute_plan re-attempts that action until retry_count = max_retries, then
\* sets it to Failed, and returns results only for the actions up to and
\* including it.
C2_RetryUntilFailed ==
    (Returned /\ obs.fresh) =>
        \A i \in 1..N :
            AlwaysReportedFailure(i) =>
                /\ Actions(run.plan)[i].status = FAILED
                /\ Actions(run.plan)[i].retry_count = Actions(run.plan)[i].max_retries
                /\ Cardinality(Executed(i)) = Actions(run.plan)[i].max_retries + 1
                /\ \A k \in 1..Len(run.results) :
                      run.results[k].action_id <= Actions(run.plan)[i].id

\* a first call on a plan returned after execute_action had reported failure
C2_Witness ==
    /\ Returned /\ obs.fresh
    /\ \E i \in 1..N : AlwaysReportedFailure(i)

\* attempt k: execute_action reported success, the judge rejected the outcome,
\* and retry_count was below max_retries
RejectedWithRetriesLeft(k) ==
    /\ Attempts[k].reported = "success"
    /\ Attempts[k].verdict = "reject"
    /\ Attempts[k].retry_count < Actions(run.plan)[Attempts[k].action].max_retries

C4_Scenario ==
    /\ N = 2
    /\ obs.fresh /\ ~obs.fault
    /\ Len(Attempts) >= 1
    /\ \A k \in 1..Len(Attempts) :
          /\ Attempts[k].reported = "success"
          /\ Attempts[k].verdict = IF k = 1 THEN "reject" ELSE "pass"

C6_CancelBeforeAttempt ==
    (run.pc = "done" /\ run.outcome = "cancelled"
     /\ PlanExists(run.plan) /\ run.authorized
     /\ obs.cancel_before \in 1..N) =>
        /\ Len(run.results) = obs.cancel_before - 1
        /\ \A j \in obs.cancel_before..N :
              Actions(run.plan)[j].status = CANCELLED

\* the task was cancelled during the settle wait after action 1 of two
C6_Witness ==
    /\ run.pc = "done" /\ run.outcome = "cancelled"
    /\ PlanExists(run.plan) /\ obs.cancel_before = 2 /\ N = 2

C9_UnknownSession ==
    [][\A s \in SessionIds :
          (/\ cpm_last'.op = "handle_clarification"
           /\ cpm_last'.session = s
           /\ active_sessions[s] = NoPlan)
          => /\ cpm_last'.outcome = "SessionNotFound"
             /\ cpm_last'.port_calls = 0
             /\ active_sessions' = active_sessions
             /\ plans' = plans]_vars

\* handle_clarification was refused for a session id that has no entry
C9_Witness ==
    /\ cpm_last.op = "handle_clarification"
    /\ cpm_last.outcome = "SessionNotFound"
    /\ active_sessions[cpm_last.session] = NoPlan

C11_IntentStored ==
    [][\A s \in SessionIds :
          (/\ cpm_last'.op = "process_user_message"
           /\ cpm_last'.session = s
           /\ cpm_last'.outcome # "fault")
          => /\ cpm_last'.outcome = "plan"
             /\ active_sessions'[s] = cpm_last'.plan
             /\ cpm_last'.plan \in 1..Len(plans')
             /\ plans'[cpm_last'.plan].context = s
             /\ history'[s] = history[s] \o <<"user", "assistant">>]_vars

\* process_user_message returned a plan for a session
C11_Witness ==
    /\ cpm_last.op = "process_user_message"
    /\ cpm_last.outcome = "plan"
    /\ active_sessions[cpm_last.session] = cpm_last.plan
    /\ Len(history[cpm_last.session]) = 2

InExecutePlan(c) ==
    c.pc \in {"shot_before", "exec", "shot_after", "verify", "append", "settle"}

\* C13: no two executions of the same plan id are in progress at the same
\* time: while one run of execute_plan is processing a plan, no other run is
\* inside execute_plan for that plan.
C13_ExclusiveAccess ==
    ~(/\ InExecutePlan(run)
      /\ InExecutePlan(peer.run)
      /\ run.plan = peer.run.plan)

\* a second request for a plan was started while a run of it was suspended
C13_Witness ==
    /\ InExecutePlan(peer.run)
    /\ run.pc = "lookup"
    /\ run.plan = peer.run.plan

\* the ids of the actions that the summary of execute_task_plan names
\* (lines 175-182: one entry per element of results)
SummaryActionIds == {run.results[k].action_id : k \in 1..Len(run.results)}

\* the call returned a summary after it had stopped before the plan's end
PartiallyExecuted ==
    /\ Returned
    /\ \E k \in 1..Len(run.results) : ~run.results[k].success
    /\ \E i \in 1..N : \A k \in 1..Len(Attempts) : Attempts[k].action # i

\* C14: the summary returned for a partially executed plan names every action
\* of the plan, the actions that were not attempted included: no action of
\* the plan is missing from it.
C14_SummaryNamesEveryAction ==
    PartiallyExecuted =>
        \A i \in 1..N : Actions(run.plan)[i].id \in SummaryActionIds

C14_Witness == PartiallyExecuted /\ N = 2

\* the plan id is unknown or the plan belongs to another user (line 161)
NotFoundOrUnauthorized == ~PlanExists(run.plan) \/ ~run.authorized

\* C15: execute_task_plan with an unknown plan id, or with a plan of another
\* user, ends at the lookup with the error result (success = false and an
\* error message) unless its task is cancelled there; it invokes no
\* ActionPort method and changes no action's status or retry_count.
C15_ErrorResult ==
    [][(run.pc = "lookup" /\ NotFoundOrUnauthorized)
       => /\ run'.pc = "done"
          /\ run'.outcome \in {"error", "cancelled"}
          /\ ~run'.summary_success
          /\ run'.results = <<>>
          /\ obs'.port_calls = 0
          /\ obs'.attempts = <<>>
          /\ plans' = plans]_vars

\* the call was answered with the error result for a plan of another user
C15_Witness ==
    /\ run.pc = "done" /\ run.outcome = "error"
    /\ PlanExists(run.plan) /\ ~run.authorized
    /\ N >= 1

\* the status that update u asks for differs from the status of task t and
\* the pair is not in the workflow table
IllegalRequest(t, u) ==
    /\ u.status # "unset"
    /\ u.status # t.status
    /\ <<t.status, u.status>> \notin TASK_WORKFLOW_TRANSITIONS

\* C16: update_task raises ValueError when the task does not exist or when
\* the requested status differs from the current one and the pair is not in
\* TASK_WORKFLOW_TRANSITIONS, and the stored task is then unchanged; every
\* status change of a stored task follows a transition of the table, and a
\* completed task never changes status.
C16_WorkflowEnforced ==
    [][/\ \A id \in TaskIds :
            (/\ task_last'.op = "update_task"
             /\ task_last'.id = id
             /\ (~Stored(id) \/ IllegalRequest(tasks[id], task_last'.update)))
            => /\ task_last'.outcome = "ValueError"
               /\ tasks' = tasks
       /\ \A id \in 1..Len(tasks) :
            (tasks[id].stored /\ tasks'[id].stored
             /\ tasks'[id].status # tasks[id].status)
            => <<tasks[id].status, tasks'[id].status>>
                  \in TASK_WORKFLOW_TRANSITIONS]_vars

\* update_task has refused to change the status of a completed task
C16_Witness ==
    /\ task_last.op = "update_task"
    /\ task_last.outcome = "ValueError"
    /\ Stored(task_last.id)
    /\ tasks[task_last.id].status = COMPLETED
    /\ task_last.update.status = PENDING

\* C17: for every existing task, whatever its status, complete_task leaves
\* the stored task with status completed and a non-null completed_at.
C17_CompleteAlwaysCompletes ==
    [][\A id \in TaskIds :
          (/\ task_last'.op = "complete_task"
           /\ task_last'.id = id
           /\ Stored(id))
          => /\ tasks'[id].status = COMPLETED
             /\ tasks'[id].completed_at # Null]_vars

\* complete_task was called for a stored task
C17_Witness ==
    /\ task_last.op = "complete_task"
    /\ Stored(task_last.id)
    /\ task_last.outcome = "task"

\* the transitions of the action state machine
LegalTransitions ==
    {<<PENDING, IN_PROGRESS>>, <<IN_PROGRESS, COMPLETED>>,
     <<IN_PROGRESS, PENDING>>, <<IN_PROGRESS, FAILED>>,
     <<PENDING, CANCELLED>>, <<IN_PROGRESS, CANCELLED>>}

C19_InProgressDuringAttempt ==
    /\ run.pc = "exec" => Actions(run.plan)[run.idx].status = IN_PROGRESS
    /\ Returned =>
          \A i \in 1..N : Actions(run.plan)[i].status # IN_PROGRESS

\* the coroutine is suspended in execute_action
C19_Witness == run.pc = "exec" /\ run.idx = 1

\* the call returned after a port call had raised during its last attempt
ReturnedAfterFault == Returned /\ obs.fault /\ Len(Attempts) >= 1

\* C20: when a port call raises during an action's attempt, the action
\* becomes Failed with retry_count unchanged, a result with success = false
\* and the error message is appended, and no later action is attempted.
C20_FaultFailsAction ==
    ReturnedAfterFault =>
        LET k == Len(Attempts)
            i == Attempts[k].action
            last == run.results[Len(run.results)]
        IN /\ Actions(run.plan)[i].status = FAILED
           /\ Actions(run.plan)[i].retry_count = Attempts[k].retry_count
           /\ last = ExecutionResult(Actions(run.plan)[i].id, FALSE, "exception")
           /\ \A j \in 1..Len(Attempts) : Attempts[j].action <= i

\* execute_action raised for action 1 of a two-action plan
C20_Witness ==
    /\ ReturnedAfterFault
    /\ N = 2
    /\ Attempts[Len(Attempts)].action = 1
    /\ Attempts[Len(Attempts)].reported = "raise"

\* C21: if the capture of the pre-action snapshot faults, the attempt goes
\* on: execute_action is invoked for the action, the judge is not asked, and
\* the attempt's success is the success flag execute_action reported.
C21_SnapshotFailsOpen ==
    Returned =>
        \A k \in 1..Len(Attempts) :
            Attempts[k].snapshot = "fault" =>
                /\ Attempts[k].reported \in {"success", "failure"}
                /\ Attempts[k].verdict = "none"
                /\ \E j \in 1..Len(run.results) :
                      /\ run.results[j].action_id
                            = Actions(run.plan)[Attempts[k].action].id
                      /\ run.results[j].success
                            = (Attempts[k].reported = "success")

\* a call returned after take_screenshot had raised before an action
C21_Witness ==
    /\ Returned
    /\ \E k \in 1..Len(Attempts) : Attempts[k].snapshot = "fault"

\* the id of the action at position i of the running plan is one of the
\* plan's checkpoints
AtCheckpoint(i) ==
    /\ i \in 1..N
    /\ Actions(run.plan)[i].id \in plans[run.plan].checkpoints

\* C22: if the id of the next action is listed in the plan's checkpoints,
\* execution suspends before attempting it and does not attempt it until the
\* caller resumes (execute_task_plan and execute_plan offer the caller no
\* operation to resume with, so such an action is not attempted in the call).
C22_SuspendsAtCheckpoint ==
    (PlanExists(run.plan) /\ run.pc \in {"shot_before", "exec"})
        => ~AtCheckpoint(run.idx)

\* action 1 is done and the id of action 2 is a checkpoint of the plan
C22_Witness ==
    /\ run.pc = "settle"
    /\ run.idx = 1
    /\ AtCheckpoint(2)

\* plan p was a session's active plan and a later plan has taken its place
Replaced(p) ==
    /\ PlanExists(p)
    /\ \E s \in SessionIds : plans[p].context = s /\ active_sessions[s] > p

C24_NoTornReplacement ==
    [][\A s \in SessionIds :
          /\ active_sessions[s] # NoPlan => active_sessions'[s] # NoPlan
          /\ active_sessions'[s] \in {active_sessions[s], clar.new_plan}
          /\ active_sessions'[s] # NoPlan =>
                /\ active_sessions'[s] \in 1..Len(plans')
                /\ plans'[active_sessions'[s]].context = s]_vars

\* a replacement has been carried out
C24_Witness ==
    /\ clar.pc = "done" /\ clar.outcome = "replanned"
    /\ active_sessions[clar.session] = clar.new_plan
    /\ clar.new_plan # clar.plan

\* C26: when handle_clarification finds that no replanning is required it
\* returns the session's existing plan, and active_sessions and every plan
\* (actions, their statuses and retry counts, context) are unchanged.
C26_KeptPlanUnchanged ==
    [][(clar.pc = "intent" /\ clar'.outcome = "kept")
       => /\ clar'.returned = active_sessions[clar.session]
          /\ active_sessions' = active_sessions
          /\ plans' = plans]_vars

\* the existing plan was returned, and one of its actions had been executed
C26_Witness ==
    /\ clar.pc = "done" /\ clar.outcome = "kept"
    /\ clar.returned = active_sessions[clar.session]
    /\ \E i \in 1..Len(Actions(clar.returned)) :
          ~Untouched(Actions(clar.returned)[i])

\* ---------------------------------------------------------------- C25
IsPrefix(h, g) == Len(h) <= Len(g) /\ SubSeq(g, 1, Len(h)) = h

\* C25: under process_user_message and handle_clarification a session's
\* conversation history only grows at its end: the history before the step
\* is a prefix of the history after it, so no entry is removed, reordered or
\* changed and the length never decreases.
C25_HistoryAppendOnly ==
    [][\A s \in SessionIds : IsPrefix(history[s], history'[s])]_vars

\* process_user_message has appended to a history that already held an entry
C25_Witness ==
    /\ cpm_last.op = "process_user_message"
    /\ Len(history[cpm_last.session]) = 2
    /\ history[cpm_last.session][1] = "assistant"

\* ---------------------------------------------------------------- C27
RetryCountInRange ==
    \A p \in 1..Len(plans) : \A i \in 1..Len(plans[p].actions) :
        /\ 0 <= plans[p].actions[i].retry_count
        /\ plans[p].actions[i].retry_count <= plans[p].actions[i].max_retries

\* the attempt that is being decided ended in a failure reported by
\* execute_action or in an outcome the verification rejected
AttemptFailed(p, i) ==
    /\ run.pc = "append" /\ run.plan = p /\ run.idx = i /\ ~run.success
    /\ Len(Attempts) > 0
    /\ Attempts[Len(Attempts)].action = i
    /\ \/ Attempts[Len(Attempts)].reported = "failure"
       \/ Attempts[Len(Attempts)].verdict = "reject"

\* C27: in every reachable state, after any sequence of execute_plan calls,
\* every action of every plan has 0 <= retry_count <= max_retries, and a step
\* changes an action's retry_count only by adding one, when an attempt of
\* that action ended in a reported failure or a rejected outcome.
C27_RetryCountBounded ==
    /\ []RetryCountInRange
    /\ [][\A p \in 1..Len(plans) : \A i \in 1..Len(plans[p].actions) :
            plans'[p].actions[i].retry_count # plans[p].actions[i].retry_count
            => /\ plans'[p].actions[i].retry_count
                     = plans[p].actions[i].retry_count + 1
               /\ AttemptFailed(p, i)]_vars

\* an action that has used all its retries has failed once more and has
\* been given up, its retry_count left at max_retries
C27_Witness ==
    /\ Returned
    /\ obs.failed_at # 0
    /\ Actions(run.plan)[obs.failed_at].retry_count
          = Actions(run.plan)[obs.failed_at].max_retries
    /\ Actions(run.plan)[obs.failed_at].status = FAILED

\* ---------------------------------------------------------------- C28
\* this step is the call execute_action(action) of line 94 being answered
PassedToExecuteAction ==
    /\ run.pc = "exec"
    /\ obs'.port_calls = obs.port_calls + 1

RECURSIVE AttemptBudget(_)
\* the sum over the actions of (max_retries + 1)
AttemptBudget(actions) ==
    IF actions = <<>> THEN 0
    ELSE Head(actions).max_retries + 1 + AttemptBudget(Tail(actions))

\* C29: execute_plan terminates.  When every port call returns or raises, a
\* call that has entered execute_plan eventually returns its list (or is
\* cancelled from outside), and the number of action attempts of the call
\* never exceeds the sum over the plan's actions of (max_retries + 1).
C29_Terminates ==
    /\ [](InExecutePlan(run) => Len(Attempts) <= AttemptBudget(Actions(run.plan)))
    /\ (InExecutePlan(run) ~> (Returned \/ run.outcome = "cancelled"))

\* a call on a plan of two actions has attempted both and returned
C29_Witness ==
    /\ Returned
    /\ N = 2
    /\ Len(Attempts) = 2
    /\ Len(run.results) = 2

\* ---------------------------------------------------------------- C30
\* the last call was get(k), and k has been set since it was last deleted
\* or cleared
GotAfterSet(k) ==
    cache_last.op = "get" /\ cache_last.key = k /\ last_set[k].live

\* C30: in the in-memory cache, get of a key whose most recent set used
\* ttl <= 0 returns the value of that set at every later time, and get of a
\* key whose most recent set used ttl > 0 returns the value of that set up
\* to that set's time plus ttl and None afterwards.
C30_TtlSemantics ==
    \A k \in Keys :
        GotAfterSet(k) =>
            IF last_set[k].ttl <= 0
            THEN cache_last.returned = last_set[k].value
            ELSE IF cache_last.at <= last_set[k].at + last_set[k].ttl
                 THEN cache_last.returned = last_set[k].value
                 ELSE cache_last.returned = None

\* get has been called on a key whose most recent set used ttl <= 0, after
\* the expiry an earlier set had left, and has removed the key
C30_Witness ==
    \E k \in Keys :
        /\ GotAfterSet(k)
        /\ last_set[k].ttl <= 0
        /\ memory_expiry[k] = NoExpiry /\ memory_cache[k] = Missing
        /\ cache_last.returned = None

====
